---------------------------- MODULE Spec2Model ----------------------------
(***************************************************************************)
(* State-machine model of nettoolkit_db/database.py: the Excel reader      *)
(* (XL_READ, read_xl, get_merged_DataFrame_of_file), the writer (XL_WRITE, *)
(* write_to_xl) and the append orchestration (append_to_xl), acting on a   *)
(* file system that maps paths to files.                                   *)
(*                                                                         *)
(* Text (paths, sheet names) is a sequence of one-character strings, so    *)
(* that split(".") , join and the [:31] slice are computed as the code     *)
(* computes them.  A DataFrame is a record [cols, rows]; a worksheet is a  *)
(* grid of cells whose first row is the header.                            *)
(***************************************************************************)
EXTENDS Integers, Sequences, FiniteSets, TLC

VARIABLES fs,      \* the file system: a function from the paths that exist to files
          last,    \* the last call: its arguments and what it returned or raised
          pre,     \* the file system as it was before the last call
          fs0,     \* the file system at the start
          origin,  \* for each path the writer wrote: the arguments of that write
          opened,  \* the writing calls in order: target, overwrite, path opened
          calls    \* the number of calls made

vars == <<fs, last, pre, fs0, origin, opened, calls>>

-----------------------------------------------------------------------------
(* Bounds of the model *)

\* number of calls in one behaviour of Spec
MaxCalls == 2
\* number of successive writes in one behaviour of NamingSpec
MaxWrites == 3

(* Program constants *)

\* sht_name[:31]
TruncLen == 31
\* the longest worksheet name the Excel format accepts
ExcelSheetNameLimit == 31

-----------------------------------------------------------------------------
(* Text helpers *)

Rep(c, n) == [i \in 1..n |-> c]

Max(a, b) == IF a >= b THEN a ELSE b

Min(a, b) == IF a <= b THEN a ELSE b

\* s[:n]
Slice(s, n) == SubSeq(s, 1, Min(Len(s), n))

RECURSIVE SplitFrom(_, _, _, _, _)
SplitFrom(s, sep, i, cur, acc) ==
    IF i > Len(s) THEN Append(acc, cur)
    ELSE IF s[i] = sep THEN SplitFrom(s, sep, i + 1, <<>>, Append(acc, cur))
    ELSE SplitFrom(s, sep, i + 1, Append(cur, s[i]), acc)

\* s.split(sep)
Split(s, sep) == SplitFrom(s, sep, 1, <<>>, <<>>)

RECURSIVE Join(_, _)
\* sep.join(parts)
Join(parts, sep) ==
    IF Len(parts) = 0 THEN <<>>
    ELSE IF Len(parts) = 1 THEN parts[1]
    ELSE parts[1] \o <<sep>> \o Join(Tail(parts), sep)

Digits == <<"0", "1", "2", "3", "4", "5", "6", "7", "8", "9">>

RECURSIVE Str(_)
\* str(n) for n >= 0
Str(n) == IF n < 10 THEN <<Digits[n + 1]>> ELSE Str(n \div 10) \o <<Digits[(n % 10) + 1]>>

-----------------------------------------------------------------------------
(* XL_WRITE.copy_of_file *)

CopyText == <<" ", "-", " ", "C", "o", "p", "y">>

\* copy_of_file taking the text before the first "." as the name
copy_of_file_first_dot(file, n) ==
    LET spl_file == Split(file, ".")
        name     == spl_file[1]
        extn     == spl_file[Len(spl_file)]
        next_num == IF n = 1 THEN <<>> ELSE <<" ", "(">> \o Str(n) \o <<")">>
    IN  name \o CopyText \o next_num \o <<".">> \o extn

copy_of_file(file, n) ==
    LET spl_file == Split(file, ".")
        name     == Join(SubSeq(spl_file, 1, Len(spl_file) - 1), ".")
        extn     == spl_file[Len(spl_file)]
        next_num == IF n = 1 THEN <<>> ELSE <<" ", "(">> \o Str(n) \o <<")">>
    IN  name \o CopyText \o next_num \o <<".">> \o extn

-----------------------------------------------------------------------------
(* pandas values: DataFrames, worksheets, workbooks *)

\* the missing-value marker of a DataFrame cell
NaN == "NaN"
\* a worksheet cell that holds nothing
EMPTY == "<empty>"
\* sheet_name=None; None and "" are both falsy in `if self.sheet_name:`
None == <<>>

\* pd.DataFrame()
EmptyDataFrame == [cols |-> <<>>, rows |-> <<>>]

\* the characters a worksheet name may not hold
IllegalSheetChars == {"/", "\\", "?", "*", "[", "]", ":"}

\* whether DataFrame.to_excel accepts sheet_name
ValidSheetName(sheet_name) ==
    /\ Len(sheet_name) >= 1
    /\ Len(sheet_name) <= ExcelSheetNameLimit
    /\ \A i \in 1..Len(sheet_name) : sheet_name[i] \notin IllegalSheetChars

\* the grid DataFrame.to_excel writes: a header row, then one row per record;
\* index=True puts the row index in front, under index_label
ToCells(df, index, index_label) ==
    LET header == (IF index
                   THEN <<IF index_label = "" THEN EMPTY ELSE index_label>>
                   ELSE <<>>) \o df.cols
        row(i) == (IF index THEN <<ToString(i - 1)>> ELSE <<>>)
                  \o [j \in 1..Len(df.rows[i]) |->
                        IF df.rows[i][j] = NaN THEN EMPTY ELSE df.rows[i][j]]
    IN  <<header>> \o [i \in 1..Len(df.rows) |-> row(i)]

RECURSIVE MaxWidth(_)
MaxWidth(cells) ==
    IF Len(cells) = 0 THEN 0 ELSE Max(Len(cells[1]), MaxWidth(Tail(cells)))

CellAt(cells, i, j) ==
    IF i <= Len(cells) /\ j <= Len(cells[i]) THEN cells[i][j] ELSE EMPTY

\* writing new cells into a worksheet that already holds old cells
Overlay(old, new) ==
    [i \in 1..Max(Len(old), Len(new)) |->
        [j \in 1..Max(MaxWidth(old), MaxWidth(new)) |->
            IF i <= Len(new) /\ j <= Len(new[i]) THEN new[i][j]
            ELSE CellAt(old, i, j)]]

\* position of the worksheet called name in book, 0 when there is none
SheetIndex(book, name) ==
    IF \E i \in 1..Len(book) : book[i].name = name
    THEN CHOOSE i \in 1..Len(book) : book[i].name = name
    ELSE 0

\* df.to_excel(writer_file, sheet_name=..., index=..., index_label=...):
\* raises on a name the format rejects; a name the writer already holds
\* is written into that same worksheet
to_excel(book, df, sheet_name, index, index_label) ==
    LET cells == ToCells(df, index, index_label)
        at    == SheetIndex(book, sheet_name)
    IN  IF ~ValidSheetName(sheet_name)
        THEN [raised |-> TRUE, book |-> book]
        ELSE IF at = 0
        THEN [raised |-> FALSE,
              book |-> Append(book, [name |-> sheet_name, cells |-> cells])]
        ELSE [raised |-> FALSE,
              book |-> [book EXCEPT ![at].cells = Overlay(book[at].cells, cells)]]

\* ExcelFile.parse(sheet_name): the first row names the columns (an empty
\* header cell becomes "Unnamed: <position>"), empty cells read as NaN
parse(cells) ==
    IF Len(cells) = 0 THEN EmptyDataFrame
    ELSE LET w == MaxWidth(cells)
         IN  [cols |-> [j \in 1..w |->
                          IF CellAt(cells, 1, j) = EMPTY
                          THEN "Unnamed: " \o ToString(j - 1)
                          ELSE cells[1][j]],
              rows |-> [i \in 1..(Len(cells) - 1) |->
                          [j \in 1..w |->
                             IF CellAt(cells, i + 1, j) = EMPTY
                             THEN NaN ELSE cells[i + 1][j]]]]

\* df.fillna(value)
fillna(df, value) ==
    [cols |-> df.cols,
     rows |-> [i \in 1..Len(df.rows) |->
                 [j \in 1..Len(df.rows[i]) |->
                    IF df.rows[i][j] = NaN THEN value ELSE df.rows[i][j]]]]

ColIndex(cols, c) ==
    IF \E j \in 1..Len(cols) : cols[j] = c
    THEN CHOOSE j \in 1..Len(cols) : cols[j] = c
    ELSE 0

\* the columns of b that a does not have, in b's order
NewCols(a, b) == SelectSeq(b, LAMBDA c : ColIndex(a, c) = 0)

\* pd.concat([v, df]): v's rows, then df's rows, over the union of the
\* columns; a cell of a column its frame does not have is NaN
concat(v, df) ==
    LET cols == v.cols \o NewCols(v.cols, df.cols)
        widen(frame, r) ==
            [j \in 1..Len(cols) |->
                IF ColIndex(frame.cols, cols[j]) = 0 THEN NaN
                ELSE r[ColIndex(frame.cols, cols[j])]]
    IN  [cols |-> cols,
         rows |-> [i \in 1..Len(v.rows) |-> widen(v, v.rows[i])]
                  \o [i \in 1..Len(df.rows) |-> widen(df, df.rows[i])]]

-----------------------------------------------------------------------------
(* Ordered mappings from sheet name to DataFrame: sequences of [k, v] *)

KeyIndex(d, k) ==
    IF \E i \in 1..Len(d) : d[i].k = k
    THEN CHOOSE i \in 1..Len(d) : d[i].k = k
    ELSE 0

Keys(d) == {d[i].k : i \in 1..Len(d)}

\* self.df_dict[key] = value
SetItem(d, k, v) ==
    IF KeyIndex(d, k) = 0 THEN Append(d, [k |-> k, v |-> v])
    ELSE [d EXCEPT ![KeyIndex(d, k)].v = v]

RECURSIVE update_keep_existing(_, _)
\* update that leaves the entries prev_dict already has
update_keep_existing(prev_dict, df_dict) ==
    IF Len(df_dict) = 0 THEN prev_dict
    ELSE update_keep_existing(
             IF KeyIndex(prev_dict, df_dict[1].k) = 0
             THEN Append(prev_dict, df_dict[1]) ELSE prev_dict,
             Tail(df_dict))

RECURSIVE update(_, _)
\* prev_dict.update(df_dict)
update(prev_dict, df_dict) ==
    IF Len(df_dict) = 0 THEN prev_dict
    ELSE update(SetItem(prev_dict, df_dict[1].k, df_dict[1].v), Tail(df_dict))

-----------------------------------------------------------------------------
(* The file system *)

\* a file that is no workbook (its bytes are irrelevant)
BadFile == [kind |-> "bad", sheets |-> <<>>]

XlFile(book) == [kind |-> "xl", sheets |-> book]

Exists(f, path) == path \in DOMAIN f

\* whether pd.ExcelFile(path) succeeds
Openable(f, path) == Exists(f, path) /\ f[path].kind = "xl"

\* the file system after path has been (re)written with file
Put(f, path, file) ==
    [p \in DOMAIN f \cup {path} |-> IF p = path THEN file ELSE f[p]]

\* os.remove(file) inside try/except: pass
os_remove(f, file) == [p \in DOMAIN f \ {file} |-> f[p]]

-----------------------------------------------------------------------------
(* XL_READ *)

\* XL_READ.__init__: pd.ExcelFile(xl) raises unless xl opens as a workbook
XL_READ_init(f, xl, sheet_name) ==
    IF Openable(f, xl)
    THEN [raised |-> "", df_dict |-> <<>>, sheet_name |-> sheet_name,
          xl |-> f[xl].sheets,
          sheet_names |-> [i \in 1..Len(f[xl].sheets) |-> f[xl].sheets[i].name]]
    ELSE [raised |-> "ExcelFileError", df_dict |-> <<>>, sheet_name |-> sheet_name,
          xl |-> <<>>, sheet_names |-> <<>>]

RECURSIVE ReadAll(_, _, _)
\* for sheet_name in self.sheet_names: self[sheet_name] = self.xl.parse(sheet_name)
ReadAll(self, d, i) ==
    IF i > Len(self.sheet_names) THEN d
    ELSE ReadAll(self,
                 SetItem(d, self.sheet_names[i],
                         parse(self.xl[SheetIndex(self.xl, self.sheet_names[i])].cells)),
                 i + 1)

\* XL_READ.read_sheets.  `sheet_name` is the loop variable of the else branch,
\* hence a local of the function: in the if branch it is read before any
\* assignment, which raises UnboundLocalError before self[...] is assigned
read_sheets(self) ==
    IF self.sheet_name /= None
    THEN [self EXCEPT !.raised = "UnboundLocalError"]
    ELSE [self EXCEPT !.df_dict = ReadAll(self, self.df_dict, 1)]

\* XL_READ(xl, sheet_name) followed by read_sheets()
XL_READ_then_read_sheets(f, xl, sheet_name) ==
    LET self == XL_READ_init(f, xl, sheet_name)
    IN  IF self.raised /= "" THEN self ELSE read_sheets(self)

read_xl(f, file) == XL_READ_then_read_sheets(f, file, None)

RECURSIVE MergeFrom(_, _, _)
\* for k, v in xlr: v = v.fillna(""); df = pd.concat([v, df])
MergeFrom(d, i, df) ==
    IF i > Len(d) THEN df
    ELSE MergeFrom(d, i + 1, concat(fillna(d[i].v, ""), df))

get_merged_DataFrame_of_file(f, file) ==
    LET xlr == read_xl(f, file)
    IN  IF xlr.raised /= ""
        THEN [raised |-> xlr.raised, df |-> EmptyDataFrame]
        ELSE [raised |-> "", df |-> MergeFrom(xlr.df_dict, 1, EmptyDataFrame)]

-----------------------------------------------------------------------------
(* XL_WRITE *)

RECURSIVE Probe(_, _, _, _)
\* the while loop of get_valid_file_name
Probe(f, file_name, file, n) ==
    IF XL_READ_init(f, file, None).raised = ""
    THEN Probe(f, file_name, copy_of_file(file_name, n + 1), n + 1)
    ELSE file

get_valid_file_name(f, file) == Probe(f, file, file, 0)

\* a pass of the loop that does not retry under the cut name
WriteSheet_no_retry(book, sht_name, df, index, index_label) ==
    LET full == to_excel(book, df, sht_name, index, index_label)
    IN  IF ~full.raised
        THEN [book |-> full.book, how |-> "full", name |-> sht_name]
        ELSE [book |-> book, how |-> "skipped", name |-> <<>>]

\* one pass of the for loop of write: the full name, then the name cut to
\* TruncLen characters, then give up; how is what happened
WriteSheet(book, sht_name, df, index, index_label) ==
    LET full == to_excel(book, df, sht_name, index, index_label)
        cut  == to_excel(book, df, Slice(sht_name, TruncLen), index, index_label)
    IN  IF ~full.raised
        THEN [book |-> full.book, how |-> "full", name |-> sht_name]
        ELSE IF ~cut.raised
        THEN [book |-> cut.book, how |-> "trunc", name |-> Slice(sht_name, TruncLen)]
        ELSE [book |-> book, how |-> "skipped", name |-> <<>>]

RECURSIVE WriteSheets(_, _, _, _, _, _)
\* for sht_name, df in df_dict.items(): ...
WriteSheets(book, log, df_dict, i, index, index_label) ==
    IF i > Len(df_dict) THEN [book |-> book, log |-> log]
    ELSE LET w == WriteSheet(book, df_dict[i].k, df_dict[i].v, index, index_label)
         IN  WriteSheets(w.book,
                         Append(log, [key |-> df_dict[i].k, how |-> w.how, name |-> w.name]),
                         df_dict, i + 1, index, index_label)

\* write probing for a free name whatever overwrite says
TargetName_always_probe(f, name, overwrite) == get_valid_file_name(f, name)

\* the path write opens
TargetName(f, name, overwrite) ==
    IF overwrite THEN name ELSE get_valid_file_name(f, name)

\* write passing index=True to to_excel whatever it was given
XL_WRITE_write_index_on(f, name, df_dict, index, index_label, overwrite) ==
    LET fileName == IF overwrite THEN name ELSE get_valid_file_name(f, name)
        w        == WriteSheets(<<>>, <<>>, df_dict, 1, TRUE, index_label)
    IN  [fileName |-> fileName, log |-> w.log, raised |-> "",
         fs |-> Put(f, fileName, XlFile(w.book))]

\* XL_WRITE.write: the path it opens, the per-sheet log, and the file system
\* after the ExcelWriter is closed
XL_WRITE_write(f, name, df_dict, index, index_label, overwrite) ==
    LET fileName == TargetName(f, name, overwrite)
        w        == WriteSheets(<<>>, <<>>, df_dict, 1, index, index_label)
    IN  [fileName |-> fileName, log |-> w.log, raised |-> "",
         fs |-> Put(f, fileName, XlFile(w.book))]

write_to_xl(f, file, df_dict, index, overwrite, index_label) ==
    XL_WRITE_write(f, file, df_dict, index, index_label, overwrite)

\* the collection append_to_xl hands to the writer
MergedDict(f, file, df_dict) ==
    LET xlrd      == read_xl(f, file)
        prev_dict == IF xlrd.raised /= "" THEN <<>> ELSE xlrd.df_dict
    IN  update(prev_dict, df_dict)

\* append_to_xl removing the file whatever overwrite says
append_to_xl_always_remove(f, file, df_dict, overwrite, index_label) ==
    write_to_xl(os_remove(f, file), file, MergedDict(f, file, df_dict), FALSE,
                overwrite, index_label)

append_to_xl(f, file, df_dict, overwrite, index_label) ==
    LET prev_dict == MergedDict(f, file, df_dict)
        f1        == IF overwrite THEN os_remove(f, file) ELSE f
    IN  write_to_xl(f1, file, prev_dict, FALSE, overwrite, index_label)

-----------------------------------------------------------------------------
(* The inputs the calls are made with *)

\* "X.x" and a target with two dots, "a.b.x"
FileX  == <<"X", ".", "x">>
FileAB == <<"a", ".", "b", ".", "x">>
Targets == {FileX, FileAB}
\* "X - Copy.x" and "a.b - Copy.x"
FileXCopy  == <<"X", " ", "-", " ", "C", "o", "p", "y", ".", "x">>
FileABCopy == <<"a", ".", "b", " ", "-", " ", "C", "o", "p", "y", ".", "x">>

nA    == <<"A">>
nB    == <<"B">>
\* 31 characters: the longest name the format accepts
nL31  == Rep("a", 31)
\* 40 characters whose first 31 are nL31
nL40  == Rep("a", 40)
\* 40 characters whose first 31 are no other name in use
nM40  == Rep("m", 40)
\* rejected in full and cut: it holds "/"
nBad  == <<"A", "/", "B">>

t1 == [cols |-> <<"x">>, rows |-> << <<"1">> >>]
t2 == [cols |-> <<"y">>, rows |-> << <<"2">>, <<"3">> >>]
t3 == [cols |-> <<"x", "y">>, rows |-> << <<"1", NaN>>, <<"2", "3">> >>]

Item(k, v) == [k |-> k, v |-> v]

dB     == << Item(nB, t3) >>
dAB    == << Item(nA, t1), Item(nB, t1) >>
dXY    == << Item(nA, t1), Item(nB, t2) >>
dClash == << Item(nL31, t2), Item(nA, t1), Item(nL40, t1) >>
dBad   == << Item(nBad, t1), Item(nM40, t3) >>
DfDicts == {dB, dAB, dClash, dBad}

\* (index, index_label) as passed to write_to_xl
IndexArgs == { <<FALSE, "">>, <<TRUE, "">> }

SheetArgs == {nB}

\* a workbook as Excel would have saved df_dict
Workbook(df_dict) ==
    XlFile([i \in 1..Len(df_dict) |->
              [name |-> df_dict[i].k, cells |-> ToCells(df_dict[i].v, FALSE, "")]])

OneFile(path, file) == [p \in {path} |-> file]

InitialFileSystems ==
    { <<>>,
      OneFile(FileX, BadFile),
      Put(OneFile(FileX, Workbook(dXY)), FileXCopy, BadFile),
      Put(OneFile(FileX, Workbook(dB)), FileXCopy, Workbook(dAB)),
      Put(OneFile(FileAB, Workbook(dAB)), FileABCopy, Workbook(dB)) }

-----------------------------------------------------------------------------
(* The state machine *)

NoCall ==
    [op |-> "none", file |-> <<>>, df_dict |-> <<>>, index |-> FALSE,
     index_label |-> "", overwrite |-> FALSE, sheet_name |-> None,
     raised |-> "", fileName |-> <<>>, handed |-> <<>>, log |-> <<>>,
     out |-> <<>>, df |-> EmptyDataFrame]

Init ==
    /\ fs \in InitialFileSystems
    /\ fs0 = fs
    /\ pre = fs
    /\ last = NoCall
    /\ origin = <<>>
    /\ opened = <<>>
    /\ calls = 0

\* what a call of the writer leaves behind: w is what XL_WRITE.write
\* returned, handed the collection it was given
Written(w, call, handed, index, index_label) ==
    /\ fs' = w.fs
    /\ pre' = fs
    /\ last' = [call EXCEPT !.raised = w.raised, !.fileName = w.fileName,
                            !.handed = handed, !.log = w.log]
    /\ origin' = Put(origin, w.fileName,
                     [op |-> call.op, file |-> call.file, df_dict |-> handed,
                      index |-> index, index_label |-> index_label,
                      fresh |-> ~Exists(fs, w.fileName)])
    /\ opened' = Append(opened, [op |-> call.op, file |-> call.file,
                                 overwrite |-> call.overwrite,
                                 fileName |-> w.fileName])
    /\ calls' = calls + 1
    /\ UNCHANGED fs0

DoWrite(file, df_dict, index, overwrite, index_label) ==
    Written(write_to_xl(fs, file, df_dict, index, overwrite, index_label),
            [NoCall EXCEPT !.op = "write", !.file = file, !.df_dict = df_dict,
                           !.index = index, !.index_label = index_label,
                           !.overwrite = overwrite],
            df_dict, index, index_label)

DoAppend(file, df_dict, overwrite, index_label) ==
    Written(append_to_xl(fs, file, df_dict, overwrite, index_label),
            [NoCall EXCEPT !.op = "append", !.file = file, !.df_dict = df_dict,
                           !.index_label = index_label, !.overwrite = overwrite],
            MergedDict(fs, file, df_dict), FALSE, index_label)

\* a call that only reads
Returned(call) ==
    /\ last' = call
    /\ pre' = fs
    /\ calls' = calls + 1
    /\ UNCHANGED <<fs, fs0, origin, opened>>

\* write_to_xl(file, df_dict, index, overwrite, index_label)
WriteToXl ==
    /\ calls < MaxCalls
    /\ \E file \in Targets, df_dict \in DfDicts, ix \in IndexArgs, overwrite \in BOOLEAN :
          DoWrite(file, df_dict, ix[1], overwrite, ix[2])

\* append_to_xl(file, df_dict, overwrite)
AppendToXl ==
    /\ calls < MaxCalls
    /\ \E file \in Targets, df_dict \in DfDicts, overwrite \in BOOLEAN :
          DoAppend(file, df_dict, overwrite, "")

\* read_xl(file)
ReadXl ==
    /\ calls < MaxCalls
    /\ \E file \in Targets \cup DOMAIN fs :
          LET xlrd == read_xl(fs, file)
          IN  Returned([NoCall EXCEPT !.op = "read", !.file = file,
                                      !.raised = xlrd.raised, !.out = xlrd.df_dict])

\* XL_READ(file, sheet_name=s).read_sheets()
ReadOneSheet ==
    /\ calls < MaxCalls
    /\ \E file \in Targets \cup DOMAIN fs, s \in SheetArgs :
          LET xlrd == XL_READ_then_read_sheets(fs, file, s)
          IN  Returned([NoCall EXCEPT !.op = "read_sheet", !.file = file,
                                      !.sheet_name = s,
                                      !.raised = xlrd.raised, !.out = xlrd.df_dict])

\* get_merged_DataFrame_of_file(file)
GetMerged ==
    /\ calls < MaxCalls
    /\ \E file \in Targets \cup DOMAIN fs :
          LET r == get_merged_DataFrame_of_file(fs, file)
          IN  Returned([NoCall EXCEPT !.op = "merge", !.file = file,
                                      !.raised = r.raised, !.df = r.df])

Next == WriteToXl \/ AppendToXl \/ ReadXl \/ ReadOneSheet \/ GetMerged

Spec == Init /\ [][Next]_vars

\* successive write_to_xl(file, df_dict, index=True, index_label="idx")
\* calls (overwrite left at its default, False), and nothing else
NamingWrite ==
    /\ Len(opened) < MaxWrites
    /\ \E file \in Targets, df_dict \in {dB, dBad} :
          DoWrite(file, df_dict, TRUE, FALSE, "idx")

NamingNext == NamingWrite

NamingSpec == Init /\ [][NamingNext]_vars

-----------------------------------------------------------------------------
(* What the claims speak of, stated apart from the code's own helpers *)

IsWrite  == last.op = "write"
IsAppend == last.op = "append"

\* position of the last "." of path (0 when it has none)
LastDot(path) ==
    IF \E i \in 1..Len(path) : path[i] = "."
    THEN CHOOSE i \in 1..Len(path) :
            path[i] = "." /\ \A j \in (i + 1)..Len(path) : path[j] /= "."
    ELSE 0

\* the n-th path of <base>.<ext>, "<base> - Copy.<ext>", "<base> - Copy (2).<ext>", ...
Candidate(path, n) ==
    LET base == SubSeq(path, 1, LastDot(path) - 1)
        ext  == SubSeq(path, LastDot(path) + 1, Len(path))
    IN  IF n = 0 THEN path
        ELSE IF n = 1 THEN base \o <<" ", "-", " ", "C", "o", "p", "y", ".">> \o ext
        ELSE base \o <<" ", "-", " ", "C", "o", "p", "y", " ", "(">> \o Str(n)
                  \o <<")", ".">> \o ext

\* path is the first candidate from the from-th on that does not open as a workbook in f
FirstFree(f, target, from, path) ==
    \E n \in from..(from + Cardinality(DOMAIN f)) :
        /\ path = Candidate(target, n)
        /\ ~Openable(f, path)
        /\ \A m \in 0..(n - 1) : Openable(f, Candidate(target, m))

\* what a workbook holds, as a mapping from sheet name to table
Tables(f, path) ==
    IF Openable(f, path)
    THEN [i \in 1..Len(f[path].sheets) |->
            [k |-> f[path].sheets[i].name, v |-> parse(f[path].sheets[i].cells)]]
    ELSE <<>>

Value(d, k) == d[CHOOSE i \in 1..Len(d) : d[i].k = k].v

\* every file of f other than path is in g as it was
OthersKept(f, g, path) ==
    \A p \in DOMAIN f \ {path} : Exists(g, p) /\ g[p] = f[p]

-----------------------------------------------------------------------------
\* C1: a write with overwrite=False never destroys an existing file: the
\* path it opens for writing held no file before the call, and every file
\* that existed before the call is unchanged after it.
C1_NeverDestroysAFile ==
    (IsWrite /\ ~last.overwrite) =>
        /\ ~Exists(pre, last.fileName)
        /\ \A p \in DOMAIN pre : Exists(fs, p) /\ fs[p] = pre[p]

-----------------------------------------------------------------------------
\* C2: with overwrite=False the writer opens the first path of the sequence
\* <base>.<ext>, "<base> - Copy.<ext>", "<base> - Copy (2).<ext>", ... that
\* does not open as a workbook, <ext> being the text after the last "." of
\* the target; three successive writes to one target, none of the three
\* paths present at the start, open X.x, "X - Copy.x", "X - Copy (2).x".
C2_CollisionNaming ==
    /\ \A i \in 1..Len(opened) :
          ~opened[i].overwrite =>
              \E n \in 0..(Cardinality(DOMAIN fs) + 1) :
                  opened[i].fileName = Candidate(opened[i].file, n)
    /\ (IsWrite /\ ~last.overwrite) => FirstFree(pre, last.file, 0, last.fileName)
    /\ \A target \in Targets :
          ( /\ Len(opened) >= 3
            /\ \A i \in 1..3 : opened[i].file = target /\ ~opened[i].overwrite
            /\ \A n \in 0..2 : ~Exists(fs0, Candidate(target, n)) )
          => /\ opened[1].fileName = target
             /\ opened[2].fileName = Candidate(target, 1)
             /\ opened[3].fileName = Candidate(target, 2)

C2_Witness ==
    /\ Len(opened) = 3
    /\ \A i \in 1..3 : opened[i].file = FileAB /\ ~opened[i].overwrite
    /\ fs0 = <<>>
    /\ opened[1].fileName = FileAB
    /\ opened[2].fileName = FileABCopy
    /\ opened[3].fileName = <<"a", ".", "b", " ", "-", " ", "C", "o", "p", "y",
                              " ", "(", "2", ")", ".", "x">>
    /\ \A i \in 1..3 : Openable(fs, opened[i].fileName)

-----------------------------------------------------------------------------
\* the sheets at path are exactly the union of old and new, new's table
\* under every name of new, old's table under every name only old has
IsUnion(result, old, new) ==
    /\ Keys(result) = Keys(old) \cup Keys(new)
    /\ Len(result) = Cardinality(Keys(result))
    /\ \A k \in Keys(new) : Value(result, k) = Value(new, k)
    /\ \A k \in Keys(old) \ Keys(new) : Value(result, k) = Value(old, k)

\* C3: append_to_xl(file, new) with overwrite=True leaves at the target a
\* workbook whose sheets are exactly the union of the sheets the file held
\* and the sheets of new (new's table under every name of new, the old
\* table under every name only the old file had; an absent or unreadable
\* old file counts as empty), and no error reaches the caller.
C3_AppendIsUnion ==
    (IsAppend /\ last.overwrite) =>
        /\ last.raised = ""
        /\ Openable(fs, last.file)
        /\ IsUnion(Tables(fs, last.file), Tables(pre, last.file), last.df_dict)

\* C3 as amended: the same, for a new collection whose sheet names the
\* format accepts.
C3_AppendIsUnionOfAcceptedNames ==
    (IsAppend /\ last.overwrite
        /\ \A k \in Keys(last.df_dict) : ValidSheetName(k)) =>
        /\ last.raised = ""
        /\ Openable(fs, last.file)
        /\ IsUnion(Tables(fs, last.file), Tables(pre, last.file), last.df_dict)

\* {"B": t} appended to a file holding {"A": t1, "B": t1}: A kept, B replaced
C3_Witness ==
    /\ IsAppend /\ last.overwrite
    /\ last.df_dict = dB
    /\ Tables(pre, last.file) = dAB
    /\ Tables(fs, last.file) = << Item(nA, t1), Item(nB, t3) >>

-----------------------------------------------------------------------------
\* the worksheet of book called name
Sheet(book, name) == book[CHOOSE i \in 1..Len(book) : book[i].name = name]

HasSheet(book, name) == \E i \in 1..Len(book) : book[i].name = name

First31(name) == SubSeq(name, 1, IF Len(name) < 31 THEN Len(name) ELSE 31)

\* the name the i-th table of d goes under: its own, else its first 31
\* characters, else none (<<>>)
GoesUnder(d, i) ==
    IF ValidSheetName(d[i].k) THEN d[i].k
    ELSE IF ValidSheetName(First31(d[i].k)) THEN First31(d[i].k)
    ELSE <<>>

\* C4: a per-sheet failure never aborts a write: every sheet is processed in
\* order and the call returns without raising; a table whose name is
\* accepted is written under it, a table whose name is rejected but whose
\* first 31 characters are accepted is written under that prefix, and a
\* table is left out only when both were rejected, the sheets after it
\* being still attempted.
C4_BadSheetNeverAborts ==
    (IsWrite \/ IsAppend) =>
        LET d    == last.handed
            book == fs[last.fileName].sheets
        IN  /\ last.raised = ""
            /\ Openable(fs, last.fileName)
            /\ Len(last.log) = Len(d)
            /\ \A i \in 1..Len(d) :
                  /\ last.log[i].key = d[i].k
                  /\ last.log[i].name = GoesUnder(d, i)
                  /\ (last.log[i].how = "skipped") = (GoesUnder(d, i) = <<>>)
                  /\ (last.log[i].how = "full") = ValidSheetName(d[i].k)
                  /\ GoesUnder(d, i) /= <<>> =>
                        /\ HasSheet(book, GoesUnder(d, i))
                        /\ (\A j \in 1..Len(d) : j /= i => GoesUnder(d, j) /= GoesUnder(d, i))
                              => Sheet(book, GoesUnder(d, i)).cells
                                    = ToCells(d[i].v, last.index, last.index_label)
            /\ \A j \in 1..Len(book) :
                  \E i \in 1..Len(d) : GoesUnder(d, i) = book[j].name

\* a name rejected twice, and after it a 40-character name written under
\* its first 31 characters
C4_Witness ==
    /\ IsWrite
    /\ last.df_dict = dBad
    /\ last.log[1].how = "skipped"
    /\ last.log[2].how = "trunc"
    /\ Len(last.df_dict[2].k) = 40
    /\ Len(last.log[2].name) = 31
    /\ Len(fs[last.fileName].sheets) = 1
    /\ Sheet(fs[last.fileName].sheets, Rep("m", 31)).cells
          = ToCells(t3, last.index, last.index_label)

-----------------------------------------------------------------------------
\* C5: under overwrite=True no copy name is produced: after any sequence of
\* write_to_xl and append_to_xl calls with overwrite=True the files are the
\* initial ones plus the targets, and a write leaves at its target exactly
\* what it was given, whatever the target held before.
C5_OverwriteMakesNoCopy ==
    /\ (\A i \in 1..Len(opened) : opened[i].overwrite) =>
          DOMAIN fs = DOMAIN fs0 \cup {opened[i].file : i \in 1..Len(opened)}
    /\ ((IsWrite \/ IsAppend) /\ last.overwrite) =>
          /\ last.fileName = last.file
          /\ OthersKept(pre, fs, last.file)
          /\ DOMAIN fs = DOMAIN pre \cup {last.file}
          /\ fs[last.file]
                = write_to_xl(<<>>, last.file, last.handed, last.index, TRUE,
                              last.index_label).fs[last.file]

\* the same content written twice to a path that did not exist at first
C5_Witness ==
    /\ calls = 2 /\ Len(opened) = 2
    /\ IsWrite /\ last.overwrite
    /\ opened[1].op = "write" /\ opened[1].overwrite /\ opened[1].file = last.file
    /\ ~Exists(fs0, last.file)
    /\ pre[last.file] = fs[last.file]
    /\ DOMAIN fs = DOMAIN fs0 \cup {last.file}

-----------------------------------------------------------------------------
\* the last call read back a file that write_to_xl made at a path holding
\* no file, from a collection whose sheet names the format accepts
ReadBack ==
    /\ last.op = "read"
    /\ Exists(origin, last.file)
    /\ origin[last.file].op = "write"
    /\ origin[last.file].file = last.file
    /\ origin[last.file].fresh
    /\ \A k \in Keys(origin[last.file].df_dict) :
          Len(k) <= 31 /\ ValidSheetName(k)

\* a table without its first column
DropFirstColumn(df) ==
    [cols |-> Tail(df.cols), rows |-> [i \in 1..Len(df.rows) |-> Tail(df.rows[i])]]

\* C6: round trip: write_to_xl of a collection whose sheet names are at
\* most 31 characters and accepted, to a path holding no file, followed by
\* read_xl of that path yields the same sheet names in the same order, each
\* with a table equal to the one written.
C6_RoundTrip ==
    ReadBack => /\ last.raised = ""
                /\ last.out = origin[last.file].df_dict

\* C6 as amended: the table read equals the one written when the write had
\* index=False; with index=True it is the written table behind one more
\* column, the row index.
C6_RoundTripModuloIndex ==
    ReadBack =>
        LET w == origin[last.file]
        IN  /\ last.raised = ""
            /\ Len(last.out) = Len(w.df_dict)
            /\ \A i \in 1..Len(w.df_dict) :
                  /\ last.out[i].k = w.df_dict[i].k
                  /\ ~w.index => last.out[i].v = w.df_dict[i].v
                  /\ w.index =>
                        /\ DropFirstColumn(last.out[i].v) = w.df_dict[i].v
                        /\ Len(last.out[i].v.cols) = Len(w.df_dict[i].v.cols) + 1

\* two sheets written without index and read back in the order written
C6_Witness ==
    /\ ReadBack
    /\ ~origin[last.file].index
    /\ origin[last.file].df_dict = dAB
    /\ last.out = dAB
    /\ calls = 2

-----------------------------------------------------------------------------
\* C7: get_merged_DataFrame_of_file on a file with two sheets, A with only
\* column "x" and B with only column "y", returns a table in which every
\* cell of A's rows under "y" and of B's rows under "x" is the empty
\* string, never the missing-value marker.
C7_MergeFillsMissing ==
    ( /\ last.op = "merge"
      /\ Openable(fs, last.file)
      /\ Len(Tables(fs, last.file)) = 2
      /\ Tables(fs, last.file)[1].v.cols = <<"x">>
      /\ Tables(fs, last.file)[2].v.cols = <<"y">> )
    => /\ last.raised = ""
       /\ \A i \in 1..Len(last.df.rows) :
             \A j \in 1..Len(last.df.rows[i]) : last.df.rows[i][j] /= NaN

-----------------------------------------------------------------------------
\* C8: XL_READ(file, sheet_name=s) followed by read_sheets(), for a workbook
\* that holds sheet s, ends with df_dict holding exactly one entry, keyed s
\* and equal to the table of sheet s; with no sheet name, df_dict holds
\* every sheet of the file in on-disk order.
C8_ReadsOnlyTheNamedSheet ==
    /\ ( /\ last.op = "read_sheet"
         /\ Openable(fs, last.file)
         /\ HasSheet(fs[last.file].sheets, last.sheet_name) )
       => /\ last.raised = ""
          /\ last.out = << Item(last.sheet_name,
                                parse(Sheet(fs[last.file].sheets, last.sheet_name).cells)) >>
    /\ (last.op = "read" /\ Openable(fs, last.file))
       => /\ last.raised = ""
          /\ last.out = Tables(fs, last.file)

-----------------------------------------------------------------------------
\* old, with new's tables put over it: old's names in old's order, then the
\* names only new has, in new's order
MergeOf(old, new) ==
    [i \in 1..Len(old) |->
        IF old[i].k \in Keys(new) THEN Item(old[i].k, Value(new, old[i].k)) ELSE old[i]]
    \o SelectSeq(new, LAMBDA it : it.k \notin Keys(old))

\* C9: append_to_xl with overwrite=False on a target holding a valid
\* workbook leaves the target (and every other file) as it was and hands
\* the merged collection to the writer at the first copy path that does not
\* open as a workbook; accepted names read back as the merged collection.
C9_AppendNoOverwriteKeepsTarget ==
    (IsAppend /\ ~last.overwrite /\ Openable(pre, last.file)) =>
        /\ last.raised = ""
        /\ last.fileName /= last.file
        /\ FirstFree(pre, last.file, 1, last.fileName)
        /\ Exists(fs, last.file) /\ fs[last.file] = pre[last.file]
        /\ OthersKept(pre, fs, last.fileName)
        /\ last.handed = MergeOf(Tables(pre, last.file), last.df_dict)
        /\ Openable(fs, last.fileName)
        /\ (\A k \in Keys(last.df_dict) : ValidSheetName(k))
              => Tables(fs, last.fileName) = MergeOf(Tables(pre, last.file), last.df_dict)

\* target and first copy both hold workbooks: the merge goes to "X - Copy (2).x"
C9_Witness ==
    /\ IsAppend /\ ~last.overwrite
    /\ last.file = FileX
    /\ Openable(pre, FileX) /\ Openable(pre, FileXCopy)
    /\ last.fileName = <<"X", " ", "-", " ", "C", "o", "p", "y", " ", "(", "2", ")", ".", "x">>
    /\ last.df_dict = dAB
    /\ Tables(fs, last.fileName) = << Item(nB, t1), Item(nA, t1) >>
    /\ fs[FileX] = pre[FileX]

-----------------------------------------------------------------------------
\* C10: in any write, and in the rewrite append_to_xl does, two tables of
\* the collection are never written under the same worksheet name, and
\* each worksheet of the output holds the data of exactly one table.
C10_OneWorksheetPerTable ==
    (IsWrite \/ IsAppend) =>
        /\ \A i, j \in 1..Len(last.log) :
              (i /= j /\ last.log[i].how /= "skipped" /\ last.log[j].how /= "skipped")
                 => last.log[i].name /= last.log[j].name
        /\ \A s \in 1..Len(fs[last.fileName].sheets) :
              \E i \in 1..Len(last.handed) :
                 fs[last.fileName].sheets[s].cells
                    = ToCells(last.handed[i].v, last.index, last.index_label)

=============================================================================
